---- MODULE Spec2Model ----
(***************************************************************************)
(* A model of the resource-manager / REST-mapping layer of                 *)
(* python-manilaclient (manilaclient/v1/shares.py, quotas.py,              *)
(* quota_classes.py).  The managers are stateless, so the state is the     *)
(* observation of the call in progress on the client: which operation ran, *)
(* with which arguments, which requests it handed to the HTTP transport    *)
(* (in order), what the server answered, what the call returned and how    *)
(* it ended.                                                               *)
(*                                                                         *)
(* Python values are tagged records (None, Str, IntV, BoolV, Dict).  Text    *)
(* that the code inspects character by character (access values, query     *)
(* strings) is a sequence of one-character strings; Join turns it into     *)
(* the string that is put into a URL or a body.                            *)
(*                                                                         *)
(* Spec is the client used by one caller, one call at a time.  SpecPair    *)
(* is the same managers shared by several callers whose calls interleave   *)
(* request by request: callers holds each caller's frame and wire the      *)
(* requests handed to the transport, in order.                             *)
(***************************************************************************)
EXTENDS Integers, Sequences, FiniteSets, TLC

VARIABLES op, args, requests, failed, raised, validated, response, result,
          callers, wire

vars == <<op, args, requests, failed, raised, validated, response, result,
          callers, wire>>

-----------------------------------------------------------------------------
(* Bounds of the model.                                                    *)

\* most dot-separated pieces of a generated ip access value
MaxOctets == 5
\* longest generated user name
MaxNameLen == 34
\* most keys in one delete_metadata call
MaxKeys == 3
\* most entries in one search_opts mapping
MaxFilters == 2
\* most callers that share the managers
MaxCallers == 2

-----------------------------------------------------------------------------
(* Python values.                                                          *)

None == [t |-> "None"]
Str(s) == [t |-> "str", v |-> s]
IntV(n) == [t |-> "int", v |-> n]
BoolV(b) == [t |-> "bool", v |-> b]
Dict(f) == [t |-> "dict", v |-> f]
\* a str whose characters the code looks at: a sequence of one-character strings
Chars(cs) == [t |-> "chars", v |-> cs]

\* a dict given by its entries <<key, value>> in the order they were inserted
Mapping(entries) == [t |-> "mapping", v |-> entries]

\* Python truthiness of a value (None, "", 0, False and {} are falsy)
Truthy(x) ==
    CASE x.t = "None" -> FALSE
      [] x.t = "str" -> x.v # ""
      [] x.t = "chars" -> x.v # <<>>
      [] x.t = "int" -> x.v # 0
      [] x.t = "bool" -> x.v
      [] x.t = "dict" -> DOMAIN x.v # {}
      [] x.t = "mapping" -> x.v # <<>>
      [] x.t = "list" -> x.v # <<>>
      [] OTHER -> TRUE

RECURSIVE Join(_)
\* the string spelled by a sequence of one-character strings
Join(cs) == IF cs = <<>> THEN "" ELSE cs[1] \o Join(Tail(cs))

RECURSIVE JoinWith(_, _)
\* sep.join(parts), on character sequences
JoinWith(parts, sep) ==
    IF parts = <<>> THEN <<>>
    ELSE IF Len(parts) = 1 THEN parts[1]
    ELSE parts[1] \o sep \o JoinWith(Tail(parts), sep)

\* str(x) as used by the "%s" conversions of the URLs
PyStr(x) ==
    CASE x.t = "str" -> x.v
      [] x.t = "chars" -> Join(x.v)
      [] x.t = "None" -> "None"
      [] x.t = "bool" -> IF x.v THEN "True" ELSE "False"
      [] x.t = "int" -> ToString(x.v)
      [] OTHER -> "?"

-----------------------------------------------------------------------------
(* Characters.                                                             *)

DigitSeq == <<"0", "1", "2", "3", "4", "5", "6", "7", "8", "9">>
Digits == {DigitSeq[i] : i \in 1..10}
DigitVal(c) == (CHOOSE i \in 1..10 : DigitSeq[i] = c) - 1
Letters ==
    {"a", "b", "c", "d", "e", "f", "g", "h", "i", "j", "k", "l", "m",
     "n", "o", "p", "q", "r", "s", "t", "u", "v", "w", "x", "y", "z",
     "A", "B", "C", "D", "E", "F", "G", "H", "I", "J", "K", "L", "M",
     "N", "O", "P", "Q", "R", "S", "T", "U", "V", "W", "X", "Y", "Z"}
Whitespace == {" ", "\t", "\n", "\r"}

RECURSIVE Split(_, _)
\* str.split(sep) for a one-character separator: always at least one piece
Split(s, sep) ==
    IF \A i \in 1..Len(s) : s[i] # sep THEN <<s>>
    ELSE LET k == CHOOSE i \in 1..Len(s) :
                      s[i] = sep /\ \A j \in 1..(i - 1) : s[j] # sep
         IN <<SubSeq(s, 1, k - 1)>> \o Split(SubSeq(s, k + 1, Len(s)), sep)

RECURSIVE LStrip(_)
LStrip(s) == IF s # <<>> /\ s[1] \in Whitespace THEN LStrip(Tail(s)) ELSE s

RECURSIVE RStrip(_)
RStrip(s) ==
    IF s # <<>> /\ s[Len(s)] \in Whitespace
    THEN RStrip(SubSeq(s, 1, Len(s) - 1)) ELSE s

RECURSIVE DecimalValue(_)
DecimalValue(ds) ==
    IF ds = <<>> THEN 0
    ELSE 10 * DecimalValue(SubSeq(ds, 1, Len(ds) - 1)) + DigitVal(ds[Len(ds)])

\* int(s): surrounding whitespace is stripped, one sign is allowed, the rest
\* must be one or more decimal digits; anything else raises ValueError.
PyInt(s) ==
    LET body == RStrip(LStrip(s))
        signed == body # <<>> /\ body[1] \in {"+", "-"}
        ds == IF signed THEN Tail(body) ELSE body
    IN IF ds # <<>> /\ \A i \in 1..Len(ds) : ds[i] \in Digits
       THEN [ok |-> TRUE,
             val |-> IF signed /\ body[1] = "-"
                     THEN 0 - DecimalValue(ds) ELSE DecimalValue(ds)]
       ELSE [ok |-> FALSE, val |-> 0]

-----------------------------------------------------------------------------
(* How a call ends.                                                        *)

NoError == [exc |-> "none", msg |-> ""]
CommandError(m) == [exc |-> "CommandError", msg |-> m]
AttributeError == [exc |-> "AttributeError", msg |-> ""]
\* a failure signalled by the transport (connection error, error status)
TransportError == [exc |-> "TransportError", msg |-> ""]
\* subscripting a mapping with a key it does not hold
KeyError == [exc |-> "KeyError", msg |-> ""]
\* subscripting None
TypeError == [exc |-> "TypeError", msg |-> ""]
\* a 2xx answer without the expected envelope key
BadResponse == [exc |-> "BadResponse", msg |-> ""]

\* how the part of a call that follows the answer ends
Returned(value) == [raised |-> NoError, result |-> value]
Raised(err) == [raised |-> err, result |-> None]

\* body[key] on a decoded response body
Subscript(body, key) ==
    IF body.t # "dict" THEN Raised(TypeError)
    ELSE IF key \notin DOMAIN body.v THEN Raised(KeyError)
    ELSE Returned(body.v[key])

-----------------------------------------------------------------------------
(* Share._validate_username and Share._validate_ip_range.                  *)

UsernameMinLen == 4
UsernameMaxLen == 32

\* the grave accent character, which the module's syntax does not admit inside
\* a string
Backtick == "<grave>"

\* the character class of valid_useraname_re: \w (letters, digits and the
\* underscore) and the listed punctuation
UsernameClass ==
    Letters \cup Digits
        \cup {"_", ".", "-", Backtick, ";", "'", "{", "}", "[", "]"}

\* re.match(valid_useraname_re, username): the class repeated 4 to 32 times
\* from the start of the string, then the end anchor, which matches at the end of the
\* string and also just before a newline that ends the string.
UsernameMatches(username) ==
    \E k \in UsernameMinLen..UsernameMaxLen :
        /\ k <= Len(username)
        /\ \A i \in 1..k : username[i] \in UsernameClass
        /\ \/ k = Len(username)
           \/ k = Len(username) - 1 /\ username[Len(username)] = "\n"

UsernameExcStr ==
    "Invalid user or group name. Must be 4-32 chars long and consist of "
        \o "alfanum and ]{.-_'" \o Backtick \o ";}["

ValidateUsername(access) ==
    IF UsernameMatches(access) THEN NoError ELSE CommandError(UsernameExcStr)

IpExcStr == "Supported ip format examples:\n\t10.0.0.2, 10.0.0.0/24"
IpPrefixMsg == "IP prefix should be in range from 0 to 32"
MaxPrefix == 32
MaxOctetValue == 255
OctetCount == 4

\* the try block of lines 85-91: int() of the prefix and its range
\* (mutant: the upper limit of the prefix is not checked)
PrefixOkNoUpper(p) == PyInt(p).ok /\ ~(PyInt(p).val < 0)
PrefixOk(p) ==
    PyInt(p).ok /\ ~(PyInt(p).val < 0 \/ PyInt(p).val > MaxPrefix)

\* the try block of lines 96-101 for one octet
OctetOk(item) ==
    PyInt(item).ok /\ 0 <= PyInt(item).val /\ PyInt(item).val <= MaxOctetValue

\* Share._validate_ip_range
\* (mutant: a bad prefix is reported with the message of the other checks)
ValidateIpRangeOneMessage(ip_range) ==
    LET parts == Split(ip_range, "/")
        octets == Split(parts[1], ".")
    IN IF Len(parts) > 2 THEN CommandError(IpExcStr)
       ELSE IF Len(parts) = 2 /\ ~PrefixOk(parts[2])
       THEN CommandError(IpExcStr)
       ELSE IF Len(octets) # OctetCount THEN CommandError(IpExcStr)
       ELSE IF \E i \in 1..Len(octets) : ~OctetOk(octets[i])
       THEN CommandError(IpExcStr)
       ELSE NoError
ValidateIpRange(ip_range) ==
    LET parts == Split(ip_range, "/")
        octets == Split(parts[1], ".")
    IN IF Len(parts) > 2 THEN CommandError(IpExcStr)
       ELSE IF Len(parts) = 2 /\ ~PrefixOk(parts[2])
       THEN CommandError(IpPrefixMsg)
       ELSE IF Len(octets) # OctetCount THEN CommandError(IpExcStr)
       ELSE IF \E i \in 1..Len(octets) : ~OctetOk(octets[i])
       THEN CommandError(IpExcStr)
       ELSE NoError

AccessTypeMsg == "Only ip and sid type are supported"

\* Share._validate_access
\* (mutant: every type other than ip is validated as a user name)
ValidateAccessAnyType(access_type, access) ==
    IF access_type = "ip" THEN ValidateIpRange(access)
    ELSE ValidateUsername(access)
ValidateAccess(access_type, access) ==
    IF access_type = "ip" THEN ValidateIpRange(access)
    ELSE IF access_type = "sid" THEN ValidateUsername(access)
    ELSE CommandError(AccessTypeMsg)

-----------------------------------------------------------------------------
(* The base module (manilaclient/base.py): getid, run_hooks and the        *)
(* manager primitives, each of which hands one request to the transport.   *)

Request(method, url, body) == [method |-> method, url |-> url, body |-> body]

\* a Share resource; only its identity matters here
ShareResource(id) == [t |-> "Share", id |-> id]
\* a share network resource, as ShareManager.create may be given
ShareNetworkResource(id) == [t |-> "ShareNetwork", id |-> id]

\* base.getid: the id attribute of an object that has one, or the object
\* itself
GetId(obj) == IF "id" \in DOMAIN obj THEN obj.id ELSE obj

\* Manager.run_hooks: no hook is registered for these managers
RunHooks(body) == body

BaseGet(url) == Request("GET", url, None)
BaseList(url) == Request("GET", url, None)
BaseCreate(url, body) == Request("POST", url, RunHooks(body))
BaseUpdate(url, body) == Request("PUT", url, RunHooks(body))
BaseDelete(url) == Request("DELETE", url, None)

\* what the primitives return: the resource built from what lies under the
\* response key, one resource per element for a listing, and nothing from
\* an update without a response key or from a delete
Resource(info) == [t |-> "Resource", info |-> info]
ListV(items) == [t |-> "list", v |-> items]
BaseUnwrap(body, key) ==
    IF body.t = "dict" /\ key \in DOMAIN body.v
    THEN Returned(Resource(body.v[key]))
    ELSE Raised(BadResponse)
BaseUnwrapList(body, key) ==
    IF body.t = "dict" /\ key \in DOMAIN body.v /\ body.v[key].t = "list"
    THEN Returned(ListV([i \in 1..Len(body.v[key].v) |->
                            Resource(body.v[key].v[i])]))
    ELSE Raised(BadResponse)
BaseNothing(body) == Returned(None)

\* The transport either answers every request of a call (fail = 0) or raises
\* on the fail-th one, which ends the call: the requests after it are never
\* made.
Issued(planned, fail) ==
    IF fail = 0 \/ fail > Len(planned) THEN planned
    ELSE SubSeq(planned, 1, fail)
TransportOutcome(planned, fail) ==
    IF fail = 0 \/ fail > Len(planned) THEN NoError ELSE TransportError

-----------------------------------------------------------------------------
(* ShareManager.                                                           *)

\* ShareManager._action
ActionUrl(share) == "/shares/" \o PyStr(GetId(share)) \o "/action"
\* (mutant: the action is named under a fixed key beside its parameters)
ActionBodyTagged(action, info) ==
    Dict(("action" :> Str(action)) @@ ("info" :> info))
ActionBody(action, info) == Dict(action :> info)
Action(action, share, info) ==
    Request("POST", ActionUrl(share), RunHooks(ActionBody(action, info)))

ForceDeleteRequests(share) ==
    <<Action("os-force_delete", GetId(share), None)>>

AllowInfo(access_type, access) ==
    Dict(("access_type" :> Str(access_type)) @@ ("access_to" :> Chars(access)))
AllowRequests(share, access_type, access) ==
    <<Action("os-allow_access", share, AllowInfo(access_type, access))>>

\* (mutant: the access id is sent under the key id)
DenyInfoWrongKey(id) == Dict("id" :> id)
DenyInfo(id) == Dict("access_id" :> id)
DenyRequests(share, id) == <<Action("os-deny_access", share, DenyInfo(id))>>

AccessListRequests(share) == <<Action("os-access_list", share, None)>>

ResetStateInfo(state) == Dict("status" :> state)
ResetStateRequests(share, state) ==
    <<Action("os-reset_status", share, ResetStateInfo(state))>>

\* ShareManager.update: nothing is sent for empty kwargs; share.id is read
\* directly, so the share must be a resource
UpdateBody(kwargs) == Dict("share" :> Dict(kwargs))
\* (mutant: the PUT is sent for empty kwargs too)
UpdateRequestsAlways(share, kwargs) ==
    IF share.t # "Share" THEN <<>>
    ELSE <<BaseUpdate("/shares/" \o PyStr(share.id), UpdateBody(kwargs))>>
UpdateRequests(share, kwargs) ==
    IF DOMAIN kwargs = {} \/ share.t # "Share" THEN <<>>
    ELSE <<BaseUpdate("/shares/" \o PyStr(share.id), UpdateBody(kwargs))>>
UpdateOutcome(share, kwargs) ==
    IF DOMAIN kwargs # {} /\ share.t # "Share" THEN AttributeError ELSE NoError

\* ShareManager.delete_metadata: one DELETE per key, in list order
MetadataKeyUrl(share, k) ==
    "/shares/" \o PyStr(GetId(share)) \o "/metadata/" \o PyStr(k)
\* (mutant: the keys are walked from the last to the first)
DeleteMetadataRequestsReversed(share, keys) ==
    [i \in 1..Len(keys) |->
        BaseDelete(MetadataKeyUrl(share, keys[Len(keys) + 1 - i]))]
DeleteMetadataRequests(share, keys) ==
    [i \in 1..Len(keys) |-> BaseDelete(MetadataKeyUrl(share, keys[i]))]
\* the loop has no try and no second attempt: the _delete that fails (the
\* fail-th, if fail is not 0) ends it, and its exception leaves the call
\* (mutant: the failing DELETE is tried once more before giving up)
DeleteMetadataIssuedRetrying(share, keys, fail) ==
    IF fail = 0 THEN DeleteMetadataRequests(share, keys)
    ELSE SubSeq(DeleteMetadataRequests(share, keys), 1, fail)
             \o <<DeleteMetadataRequests(share, keys)[fail]>>
DeleteMetadataIssued(share, keys, fail) ==
    IF fail = 0 THEN DeleteMetadataRequests(share, keys)
    ELSE SubSeq(DeleteMetadataRequests(share, keys), 1, fail)

\* ShareManager.create
\* (mutant: what was not supplied is left out of the body)
CreateBodySparse(share_proto, size, snapshot_id, name, description, metadata, share_network, volume_type) ==
    LET full == ("size" :> size) @@ ("snapshot_id" :> snapshot_id)
                    @@ ("name" :> name) @@ ("description" :> description)
                    @@ ("metadata" :> metadata)
                    @@ ("share_proto" :> share_proto)
                    @@ ("share_network_id" :> GetId(share_network))
                    @@ ("volume_type" :> volume_type)
    IN Dict("share" :> Dict([k \in {f \in DOMAIN full : full[f] # None} |->
                                full[k]]))
CreateBody(share_proto, size, snapshot_id, name, description, metadata, share_network, volume_type) ==
    LET share_metadata == IF metadata = None THEN Dict(<<>>) ELSE metadata
    IN Dict("share" :> Dict(
           ("size" :> size) @@ ("snapshot_id" :> snapshot_id)
               @@ ("name" :> name) @@ ("description" :> description)
               @@ ("metadata" :> share_metadata)
               @@ ("share_proto" :> share_proto)
               @@ ("share_network_id" :> GetId(share_network))
               @@ ("volume_type" :> volume_type)))
CreateRequests(body) == <<BaseCreate("/shares", body)>>

\* ShareManager.get
GetRequests(share_id) == <<BaseGet("/shares/" \o PyStr(share_id))>>

\* ShareManager.delete
\* (mutant: the share is formatted into the path as it was given)
DeleteRequestsUnresolved(share) ==
    <<BaseDelete("/shares/" \o (IF "id" \in DOMAIN share
                                THEN "<Share: " \o PyStr(share.id) \o ">"
                                ELSE PyStr(share)))>>
DeleteRequests(share) == <<BaseDelete("/shares/" \o PyStr(GetId(share)))>>

\* ShareManager.get_metadata, set_metadata and update_all_metadata
MetadataUrl(share) == "/shares/" \o PyStr(GetId(share)) \o "/metadata"
GetMetadataRequests(share) == <<BaseGet(MetadataUrl(share))>>
SetMetadataRequests(share, metadata) ==
    <<BaseCreate(MetadataUrl(share), Dict("metadata" :> metadata))>>
UpdateAllMetadataRequests(share, metadata) ==
    <<BaseUpdate(MetadataUrl(share), Dict("metadata" :> metadata))>>

\* what the share operations return
\* ShareManager._action: the (resp, body) pair of the POST
ActionReturn(body) == Returned([t |-> "pair", body |-> body])
\* ShareManager.allow: _action(...)[1]["access"]
AllowReturn(body) == Subscript(body, "access")
\* ShareManager.access_list: one Access tuple per element of
\* _action(...)[1]["access_list"], or the empty list
AccessListReturn(body) ==
    LET access_list == Subscript(body, "access_list")
    IN IF access_list.raised # NoError THEN access_list
       ELSE IF Truthy(access_list.result)
            THEN Returned(ListV([i \in 1..Len(access_list.result.v) |->
                     [t |-> "Access", info |-> access_list.result.v[i]]]))
            ELSE Returned(ListV(<<>>))
\* Share.update, delete, force_delete and reset_state have no return
\* statement: the manager's value is dropped
Dropped(outcome) ==
    IF outcome.raised # NoError THEN outcome ELSE Returned(None)

-----------------------------------------------------------------------------
(* ShareManager.list and urllib.urlencode.                                 *)

RECURSIVE IntChars(_)
\* the decimal digits of a natural number
IntChars(n) ==
    IF n < 10 THEN <<DigitSeq[n + 1]>>
    ELSE IntChars(n \div 10) \o <<DigitSeq[(n % 10) + 1]>>

\* str(x) as characters
PyChars(x) ==
    CASE x.t = "chars" -> x.v
      [] x.t = "int" -> IntChars(x.v)
      [] x.t = "bool" -> IF x.v THEN <<"T", "r", "u", "e">>
                         ELSE <<"F", "a", "l", "s", "e">>
      [] OTHER -> <<"N", "o", "n", "e">>

\* urllib.quote leaves these untouched
AlwaysSafe == Letters \cup Digits \cup {"_", ".", "-"}
\* the escapes of the other characters that occur in the model
PercentCode ==
    ("&" :> <<"%", "2", "6">>) @@ ("=" :> <<"%", "3", "D">>)
        @@ ("/" :> <<"%", "2", "F">>) @@ ("?" :> <<"%", "3", "F">>)

RECURSIVE QuotePlus(_)
\* urllib.quote_plus: a space becomes "+", an unsafe character its escape
QuotePlus(cs) ==
    IF cs = <<>> THEN <<>>
    ELSE (IF cs[1] \in AlwaysSafe THEN <<cs[1]>>
          ELSE IF cs[1] = " " THEN <<"+">>
          ELSE PercentCode[cs[1]]) \o QuotePlus(Tail(cs))

RECURSIVE UrlEncode(_)
\* urllib.urlencode of a sequence of two-element tuples
UrlEncode(pairs) ==
    IF pairs = <<>> THEN <<>>
    ELSE QuotePlus(PyChars(pairs[1][1])) \o <<"=">>
             \o QuotePlus(PyChars(pairs[1][2]))
             \o (IF Len(pairs) > 1 THEN <<"&">> ELSE <<>>)
             \o UrlEncode(Tail(pairs))

\* search_opts.items(): the entries in the order the dict iterates, which is
\* given by order, a permutation of the positions of insertion
Items(search_opts, order) ==
    [i \in 1..Len(order) |-> search_opts.v[order[i]]]

IsTruthyEntry(p) == Truthy(p[2])
IsAnyEntry(p) == TRUE
\* (mutant: the entries are not filtered by their value)
KeptEntriesAll(items) == SelectSeq(items, IsAnyEntry)
KeptEntries(items) == SelectSeq(items, IsTruthyEntry)

QueryString(search_opts, order) ==
    IF Truthy(search_opts)
    THEN LET query_string == UrlEncode(KeptEntries(Items(search_opts, order)))
         IN IF query_string # <<>> THEN <<"?">> \o query_string ELSE <<>>
    ELSE <<>>

ListPath(detailed, search_opts, order) ==
    IF detailed THEN "/shares/detail" \o Join(QueryString(search_opts, order))
    ELSE "/shares" \o Join(QueryString(search_opts, order))

ListRequests(detailed, search_opts, order) ==
    <<BaseList(ListPath(detailed, search_opts, order))>>

-----------------------------------------------------------------------------
(* QuotaSetManager and QuotaClassSetManager.                               *)

\* the resources; QuotaSet.id is tenant_id and QuotaClassSet.id is class_name
QuotaSetResource(tenant_id) == [t |-> "QuotaSet", tenant_id |-> tenant_id]
QuotaSetId(quota_set) == quota_set.tenant_id
QuotaClassSetResource(class_name) ==
    [t |-> "QuotaClassSet", class_name |-> class_name]
QuotaClassSetId(quota_class_set) == quota_class_set.class_name

\* (mutant: every key whose value is falsy is popped)
DropFalsy(fields) ==
    [k \in {f \in DOMAIN fields : Truthy(fields[f])} |-> fields[k]]
\* the loop that pops every key whose value is None
DropNone(fields) ==
    [k \in {f \in DOMAIN fields : fields[f] # None} |-> fields[k]]

QuotaSetFields(tenant_id, shares, snapshots, gigabytes, share_networks, force) ==
    ("tenant_id" :> tenant_id) @@ ("shares" :> shares)
        @@ ("snapshots" :> snapshots) @@ ("gigabytes" :> gigabytes)
        @@ ("share_networks" :> share_networks) @@ ("force" :> force)

QuotaSetUrl(tenant_id, user_id) ==
    IF Truthy(user_id)
    THEN "/os-quota-sets/" \o PyStr(tenant_id) \o "?user_id=" \o PyStr(user_id)
    ELSE "/os-quota-sets/" \o PyStr(tenant_id)

QuotaSetUpdateRequests(fields, user_id) ==
    <<BaseUpdate(QuotaSetUrl(fields["tenant_id"], user_id),
                 Dict("quota_set" :> Dict(DropNone(fields))))>>

QuotaClassSetFields(class_name, shares, gigabytes, snapshots, share_networks) ==
    ("class_name" :> class_name) @@ ("shares" :> shares)
        @@ ("snapshots" :> snapshots) @@ ("gigabytes" :> gigabytes)
        @@ ("share_networks" :> share_networks)

QuotaClassSetUpdateRequests(fields) ==
    <<BaseUpdate("/os-quota-class-sets/" \o PyStr(fields["class_name"]),
                 Dict("quota_class_set" :> Dict(DropNone(fields))))>>

\* QuotaSetManager.update returns what _update builds from quota_set;
\* QuotaClassSetManager.update calls _update without a response key and has
\* no return statement
QuotaSetUpdateReturn(body) == BaseUnwrap(body, "quota_set")
QuotaClassSetUpdateReturn(body) == Dropped(BaseNothing(body))

\* QuotaSetManager.get: a quota set may stand for its tenant
QuotaSetGetRequests(tenant_id, user_id) ==
    LET tenant == IF "tenant_id" \in DOMAIN tenant_id
                  THEN tenant_id.tenant_id ELSE tenant_id
    IN IF Truthy(user_id)
       THEN <<BaseGet("/os-quota-sets/" \o PyStr(tenant) \o "?user_id="
                          \o PyStr(user_id))>>
       ELSE <<BaseGet("/os-quota-sets/" \o PyStr(tenant))>>

\* QuotaSetManager.defaults
QuotaSetDefaultsRequests(tenant_id) ==
    <<BaseGet("/os-quota-sets/" \o PyStr(tenant_id) \o "/defaults")>>

\* QuotaSetManager.delete
\* (mutant: the user is left out of the URL)
QuotaSetDeleteRequestsNoUser(tenant_id, user_id) ==
    <<BaseDelete("/os-quota-sets/" \o PyStr(tenant_id))>>
QuotaSetDeleteRequests(tenant_id, user_id) ==
    IF Truthy(user_id)
    THEN <<BaseDelete("/os-quota-sets/" \o PyStr(tenant_id) \o "?user_id="
                          \o PyStr(user_id))>>
    ELSE <<BaseDelete("/os-quota-sets/" \o PyStr(tenant_id))>>

\* QuotaClassSetManager.get
QuotaClassSetGetRequests(class_name) ==
    <<BaseGet("/os-quota-class-sets/" \o PyStr(class_name))>>

-----------------------------------------------------------------------------
(* The inputs of the calls.                                                *)

ShareIds == {IntV(1234), Str("4321")}
ShareResources == {ShareResource(id) : id \in ShareIds}
\* a share argument is a Share resource or a raw id
ShareArgs == ShareResources \cup ShareIds

AccessTypes == {"ip", "sid", "user", "IP", ""}

\* ip access values: up to MaxOctets pieces joined by dots, then nothing, a
\* prefix length, or more than one slash
OctetTokens == {<<"0">>, <<"2", "5", "5">>, <<"2", "5", "6">>, <<"x">>}
PrefixParts ==
    {<<>>, <<"/", "0">>, <<"/", "2", "4">>, <<"/", "3", "2">>,
     <<"/", "3", "3">>, <<"/", "x">>, <<"/">>, <<"/", "-", "1">>,
     <<"/", "2", "4", "/", "1">>}
IpExamples ==
    {<<"1", "0", ".", "0", ".", "0", ".", "2">>,
     <<"1", "0", ".", "0", ".", "0", ".", "0", "/", "2", "4">>,
     <<"1", "0", ".", "0", ".", "0">>,
     <<"1", "0", ".", "0", ".", "0", ".", "0", "/", "3", "3">>,
     <<"9", "9", "9", ".", "0", ".", "0", ".", "1">>,
     <<"1", ".", "2", ".", "3", ".", "-", "1">>,
     <<"1", ".", ".", "3", ".", "4">>,
     <<"1", ".", "2", ".", "3", ".", "4", "/", "x", "/", "y">>,
     <<"+", "1", ".", "2", ".", "3", ".", "4">>,
     <<"1", ".", "2", ".", "3", ".", "4", "/", " ", "8">>,
     <<"1", ".", "2", ".", "3", ".", "4", "/", "+">>,
     <<>>}
IpInputs ==
    {JoinWith(o, <<".">>) \o p :
        o \in UNION {[1..n -> OctetTokens] : n \in 1..MaxOctets},
        p \in PrefixParts} \cup IpExamples

\* user names: a run of one letter, at most one character of which is
\* replaced by another letter, a digit, punctuation of the class, or a
\* character outside it
NameAltChars == {"Z", "7", "_", "]", Backtick, "@", " ", "\n"}
NameInputs ==
    {[i \in 1..n |-> "a"] : n \in 0..MaxNameLen}
        \cup {[i \in 1..n |-> IF i = k THEN c ELSE "a"] :
                 n \in 1..MaxNameLen, k \in 1..MaxNameLen, c \in NameAltChars}

\* values tried with every access type
AccessSamples ==
    {<<"1", "0", ".", "0", ".", "0", ".", "2">>, <<"u", "s", "e", "r", "1">>,
     <<"a", "b">>}
AccessInputs(access_type) ==
    IF access_type = "ip" THEN IpInputs \cup AccessSamples
    ELSE IF access_type = "sid" THEN NameInputs \cup AccessSamples
    ELSE AccessSamples

AccessIds == {Str("acc-1"), IntV(7)}
States == {Str("available"), Str("error")}

\* kwargs of ShareManager.update: any of the fields, each with a value
UpdateFields == {"display_name", "display_description"}
UpdateValues == {Str("new-name"), Str(""), None}
UpdateKwargs == UNION {[ks -> UpdateValues] : ks \in SUBSET UpdateFields}

MetaKeys == {Str("key1"), Str("key2")}
KeyLists == UNION {[1..n -> MetaKeys] : n \in 0..MaxKeys}

\* search_opts: None, or up to MaxFilters entries with distinct keys
FilterKeys ==
    {Chars(<<"s", "t", "a", "t", "u", "s">>), Chars(<<"n", "a", "m", "e">>),
     Chars(<<"a", "l", "l", "_", "t", "e", "n", "a", "n", "t", "s">>)}
FilterValues ==
    {None, Chars(<<>>), IntV(0), IntV(1),
     Chars(<<"a", "v", "a", "i", "l", "a", "b", "l", "e">>),
     Chars(<<"m", "y", " ", "s", "&", "1">>)}
Injective(f) == \A i, j \in DOMAIN f : f[i] = f[j] => i = j
Permutations1(n) == {f \in [1..n -> 1..n] : Injective(f)}
FilterEntryLists ==
    UNION {{[i \in 1..n |-> <<ks[i], vs[i]>>] :
               ks \in {f \in [1..n -> FilterKeys] : Injective(f)},
               vs \in [1..n -> FilterValues]} : n \in 0..MaxFilters}
SearchOpts == {None} \cup {Mapping(es) : es \in FilterEntryLists}
EntryCount(search_opts) ==
    IF search_opts.t = "mapping" THEN Len(search_opts.v) ELSE 0

TenantIds == {Str("tenant-a"), Str("tenant-b")}
ClassNames == {Str("default"), Str("gold")}
QuotaValues == {None, IntV(0), IntV(5)}
ForceValues == {None, BoolV(TRUE), BoolV(FALSE)}
UserIds == {None, Str(""), Str("user-1")}

\* metadata mappings, as create and the metadata operations are given
MetadataMaps ==
    {Dict(<<>>), Dict("k1" :> Str("v1")),
     Dict(("k1" :> Str("v2")) @@ ("k2" :> Str("")))}

\* decoded bodies of 2xx answers: well formed, without the expected key, or
\* absent
EnvelopeBodies(key) == {Dict(key :> Dict(<<>>)), Dict(<<>>)}
\* the answer to the PUT of an update, if one is made
UpdateAnswer(kwargs) ==
    IF DOMAIN kwargs = {} THEN None
    ELSE Dict("share" :> Dict(("id" :> IntV(1234))
                                  @@ ("name" :> Str("sharename"))))
\* the answers to an action without a result of its own
ActionBodies == {None, Dict(<<>>)}
AllowBodies == {Dict("access" :> Dict(<<>>)), Dict(<<>>), None}
\* the generated access values are answered well; the samples in every way
AllowBodiesFor(access) ==
    IF access \in AccessSamples THEN AllowBodies
    ELSE {Dict("access" :> Dict(<<>>))}

-----------------------------------------------------------------------------
(* The requests a manager operation plans for its arguments, by the name   *)
(* of the operation.                                                       *)

RequestsOf(name, a) ==
    CASE name = "ShareManager.update" -> UpdateRequests(a.share, a.kwargs)
      [] name = "ShareManager.delete" -> DeleteRequests(a.share)
      [] name = "ShareManager.force_delete" -> ForceDeleteRequests(a.share)
      [] name = "ShareManager.allow" ->
             AllowRequests(a.share, a.access_type, a.access)
      [] name = "ShareManager.deny" -> DenyRequests(a.share, a.id)
      [] name = "ShareManager.access_list" -> AccessListRequests(a.share)
      [] name = "ShareManager.reset_state" ->
             ResetStateRequests(a.share, a.state)
      [] name = "ShareManager.get_metadata" -> GetMetadataRequests(a.share)
      [] name = "ShareManager.set_metadata" ->
             SetMetadataRequests(a.share, a.metadata)
      [] name = "ShareManager.update_all_metadata" ->
             UpdateAllMetadataRequests(a.share, a.metadata)
      [] name = "ShareManager.delete_metadata" ->
             DeleteMetadataRequests(a.share, a.keys)
      [] name = "QuotaSetManager.get" ->
             QuotaSetGetRequests(a.tenant_id, a.user_id)
      [] name = "QuotaSetManager.update" ->
             QuotaSetUpdateRequests(a.fields, a.user_id)
      [] name = "QuotaSetManager.delete" ->
             QuotaSetDeleteRequests(a.tenant_id, a.user_id)

-----------------------------------------------------------------------------
(* The calls.  Each action is one whole call on the client.                *)

\* The caller is single-threaded and synchronous: a call starts when the
\* client is idle, runs to its end, and Return hands the client back.
Idle == op = "idle"

\* a call that hands its planned requests to the transport: resp is the
\* decoded body of the answer to the last of them and ret is what the rest
\* of the call makes of it
Calls(name, a, planned, fail, v, resp, ret) ==
    /\ op' = name
    /\ args' = a
    /\ requests' = Issued(planned, fail)
    /\ failed' = IF TransportOutcome(planned, fail) = NoError THEN 0 ELSE fail
    /\ validated' = v
    /\ IF TransportOutcome(planned, fail) = NoError
       THEN /\ response' = resp
            /\ raised' = ret.raised
            /\ result' = ret.result
       ELSE /\ response' = None
            /\ raised' = TransportError
            /\ result' = None
    /\ UNCHANGED <<callers, wire>>

\* a call that raises before any request
Raises(name, a, err, v) ==
    /\ op' = name
    /\ args' = a
    /\ requests' = <<>>
    /\ failed' = 0
    /\ raised' = err
    /\ validated' = v
    /\ response' = None
    /\ result' = None
    /\ UNCHANGED <<callers, wire>>

\* the frame of a caller that is in no call
IdleCaller ==
    [pc |-> "idle", name |-> "", args |-> [none |-> None], sent |-> 0,
     failed |-> 0]

Init ==
    /\ op = "idle"
    /\ args = [none |-> None]
    /\ requests = <<>>
    /\ failed = 0
    /\ raised = NoError
    /\ validated = "skipped"
    /\ response = None
    /\ result = None
    /\ callers = [c \in 1..MaxCallers |-> IdleCaller]
    /\ wire = <<>>

\* Share.allow: validates, then calls ShareManager.allow
ShareAllow ==
    /\ Idle
    /\ \E share \in ShareResources, access_type \in AccessTypes, fail \in 0..1 :
      \E access \in AccessInputs(access_type) :
        \E resp \in AllowBodiesFor(access) :
        LET a == [share |-> share, access_type |-> access_type,
                  access |-> access]
            check == ValidateAccess(access_type, access)
        IN IF check # NoError THEN Raises("Share.allow", a, check, "failed")
           ELSE Calls("Share.allow", a,
                      AllowRequests(share, access_type, access), fail, "passed",
                      resp, AllowReturn(resp))

\* ShareManager.allow
ManagerAllow ==
    /\ Idle
    /\ \E share \in ShareArgs, access_type \in AccessTypes, fail \in 0..1 :
      \E access \in AccessSamples, resp \in AllowBodies :
        Calls("ShareManager.allow",
              [share |-> share, access_type |-> access_type, access |-> access],
              AllowRequests(share, access_type, access), fail, "skipped",
              resp, AllowReturn(resp))

\* Share.deny and ShareManager.deny
Deny ==
    /\ Idle
    /\ \E id \in AccessIds, fail \in 0..1, resp \in ActionBodies :
        \/ \E share \in ShareResources :
               Calls("Share.deny", [share |-> share, id |-> id],
                     DenyRequests(share, id), fail, "skipped",
                     resp, ActionReturn(resp))
        \/ \E share \in ShareArgs :
               Calls("ShareManager.deny", [share |-> share, id |-> id],
                     DenyRequests(share, id), fail, "skipped",
                     resp, ActionReturn(resp))

\* Share.access_list and ShareManager.access_list
AccessList ==
    /\ Idle
    /\ \E fail \in 0..1,
       resp \in {Dict("access_list" :>
                     ListV(<<Dict(("id" :> Str("acc-1"))
                                      @@ ("state" :> Str("active")))>>)),
                 Dict("access_list" :> ListV(<<>>)), Dict(<<>>), None} :
        \/ \E share \in ShareResources :
               Calls("Share.access_list", [share |-> share],
                     AccessListRequests(share), fail, "skipped",
                     resp, AccessListReturn(resp))
        \/ \E share \in ShareArgs :
               Calls("ShareManager.access_list", [share |-> share],
                     AccessListRequests(share), fail, "skipped",
                     resp, AccessListReturn(resp))

\* Share.reset_state and ShareManager.reset_state
ResetState ==
    /\ Idle
    /\ \E state \in States, fail \in 0..1, resp \in ActionBodies :
        \/ \E share \in ShareResources :
               Calls("Share.reset_state", [share |-> share, state |-> state],
                     ResetStateRequests(share, state), fail, "skipped",
                     resp, Dropped(ActionReturn(resp)))
        \/ \E share \in ShareArgs :
               Calls("ShareManager.reset_state",
                     [share |-> share, state |-> state],
                     ResetStateRequests(share, state), fail, "skipped",
                     resp, ActionReturn(resp))

\* Share.force_delete and ShareManager.force_delete
ForceDelete ==
    /\ Idle
    /\ \E fail \in 0..1, resp \in ActionBodies :
        \/ \E share \in ShareResources :
               Calls("Share.force_delete", [share |-> share],
                     ForceDeleteRequests(share), fail, "skipped",
                     resp, Dropped(ActionReturn(resp)))
        \/ \E share \in ShareArgs :
               Calls("ShareManager.force_delete", [share |-> share],
                     ForceDeleteRequests(share), fail, "skipped",
                     resp, ActionReturn(resp))

\* ShareManager.create
Create ==
    /\ Idle
    /\ \E share_proto \in {Str("nfs"), Str("cifs")},
       size \in {IntV(1), IntV(2)},
       snapshot_id \in {None, Str("snap-1")},
       name \in {None, Str("sharename")},
       description \in {None, Str("")},
       metadata \in {None} \cup MetadataMaps,
       share_network \in {None, Str("net-1"),
                          ShareNetworkResource(Str("net-1"))},
       volume_type \in {None, Str("fast")},
       fail \in 0..1, resp \in EnvelopeBodies("share") :
        Calls("ShareManager.create",
              [share_proto |-> share_proto, size |-> size,
               snapshot_id |-> snapshot_id, name |-> name,
               description |-> description, metadata |-> metadata,
               share_network |-> share_network, volume_type |-> volume_type],
              CreateRequests(CreateBody(share_proto, size, snapshot_id, name,
                                        description, metadata, share_network,
                                        volume_type)),
              fail, "skipped", resp, BaseUnwrap(resp, "share"))

\* ShareManager.get
Get ==
    /\ Idle
    /\ \E share_id \in ShareIds, fail \in 0..1,
       resp \in EnvelopeBodies("share") :
        Calls("ShareManager.get", [share_id |-> share_id],
              GetRequests(share_id), fail, "skipped",
              resp, BaseUnwrap(resp, "share"))

\* Share.update and ShareManager.update
Update ==
    /\ Idle
    /\ \E kwargs \in UpdateKwargs, fail \in 0..1 :
        \/ \E share \in ShareResources :
               Calls("Share.update", [share |-> share, kwargs |-> kwargs],
                     UpdateRequests(share, kwargs), fail, "skipped",
                     UpdateAnswer(kwargs),
                     Dropped(BaseNothing(UpdateAnswer(kwargs))))
        \/ \E share \in ShareArgs :
               IF UpdateOutcome(share, kwargs) # NoError
               THEN Raises("ShareManager.update",
                           [share |-> share, kwargs |-> kwargs],
                           UpdateOutcome(share, kwargs), "skipped")
               ELSE Calls("ShareManager.update",
                          [share |-> share, kwargs |-> kwargs],
                          UpdateRequests(share, kwargs), fail, "skipped",
                          UpdateAnswer(kwargs),
                          BaseNothing(UpdateAnswer(kwargs)))

\* Share.delete and ShareManager.delete
Delete ==
    /\ Idle
    /\ \E fail \in 0..1 :
        \/ \E share \in ShareResources :
               Calls("Share.delete", [share |-> share],
                     DeleteRequests(share), fail, "skipped",
                     None, Dropped(BaseNothing(None)))
        \/ \E share \in ShareArgs :
               Calls("ShareManager.delete", [share |-> share],
                     DeleteRequests(share), fail, "skipped",
                     None, Dropped(BaseNothing(None)))

\* ShareManager.get_metadata
GetMetadata ==
    /\ Idle
    /\ \E share \in ShareArgs, fail \in 0..1,
       resp \in EnvelopeBodies("metadata") :
        Calls("ShareManager.get_metadata", [share |-> share],
              GetMetadataRequests(share), fail, "skipped",
              resp, BaseUnwrap(resp, "metadata"))

\* ShareManager.set_metadata
SetMetadata ==
    /\ Idle
    /\ \E share \in ShareArgs, metadata \in MetadataMaps, fail \in 0..1,
       resp \in EnvelopeBodies("metadata") :
        Calls("ShareManager.set_metadata",
              [share |-> share, metadata |-> metadata],
              SetMetadataRequests(share, metadata), fail, "skipped",
              resp, BaseUnwrap(resp, "metadata"))

\* Share.update_all_metadata and ShareManager.update_all_metadata
UpdateAllMetadata ==
    /\ Idle
    /\ \E metadata \in MetadataMaps, fail \in 0..1,
       resp \in EnvelopeBodies("metadata") :
        \/ \E share \in ShareResources :
               Calls("Share.update_all_metadata",
                     [share |-> share, metadata |-> metadata],
                     UpdateAllMetadataRequests(share, metadata), fail,
                     "skipped", resp, BaseNothing(resp))
        \/ \E share \in ShareArgs :
               Calls("ShareManager.update_all_metadata",
                     [share |-> share, metadata |-> metadata],
                     UpdateAllMetadataRequests(share, metadata), fail,
                     "skipped", resp, BaseNothing(resp))

\* ShareManager.delete_metadata
DeleteMetadata ==
    /\ Idle
    /\ \E share \in ShareArgs, keys \in KeyLists :
      \E fail \in 0..Len(keys) :
        /\ op' = "ShareManager.delete_metadata"
        /\ args' = [share |-> share, keys |-> keys]
        /\ requests' = DeleteMetadataIssued(share, keys, fail)
        /\ failed' = fail
        /\ raised' = IF fail = 0 THEN NoError ELSE TransportError
        /\ validated' = "skipped"
        /\ response' = None
        /\ result' = None
        /\ UNCHANGED <<callers, wire>>

\* ShareManager.list
List ==
    /\ Idle
    /\ \E detailed \in BOOLEAN, search_opts \in SearchOpts, fail \in 0..1,
       resp \in {Dict("shares" :> ListV(<<Dict("id" :> IntV(1234))>>)),
                 Dict("shares" :> ListV(<<>>))} :
      \E order \in Permutations1(EntryCount(search_opts)) :
        Calls("ShareManager.list",
              [detailed |-> detailed, search_opts |-> search_opts,
               order |-> order],
              ListRequests(detailed, search_opts, order), fail, "skipped",
              resp, BaseUnwrapList(resp, "shares"))

\* QuotaSetManager.get
QuotaSetGet ==
    /\ Idle
    /\ \E tenant_id \in TenantIds \cup {QuotaSetResource(t) : t \in TenantIds},
       user_id \in UserIds, fail \in 0..1,
       resp \in EnvelopeBodies("quota_set") :
        Calls("QuotaSetManager.get",
              [tenant_id |-> tenant_id, user_id |-> user_id],
              QuotaSetGetRequests(tenant_id, user_id), fail, "skipped",
              resp, BaseUnwrap(resp, "quota_set"))

\* QuotaSet.update and QuotaSetManager.update
QuotaSetUpdate ==
    /\ Idle
    /\ \E shares \in QuotaValues,
       snapshots \in QuotaValues, gigabytes \in QuotaValues,
       share_networks \in QuotaValues, force \in ForceValues,
       user_id \in UserIds, fail \in 0..1,
       resp \in EnvelopeBodies("quota_set") :
        \/ \E quota_set \in {QuotaSetResource(t) : t \in TenantIds} :
            LET fields == QuotaSetFields(quota_set.tenant_id, shares,
                                         snapshots, gigabytes, share_networks,
                                         force)
            IN Calls("QuotaSet.update",
                     [quota_set |-> quota_set, fields |-> fields,
                      user_id |-> user_id],
                     QuotaSetUpdateRequests(fields, user_id), fail, "skipped",
                     resp, Dropped(QuotaSetUpdateReturn(resp)))
        \/ \E tenant_id \in TenantIds :
            LET fields == QuotaSetFields(tenant_id, shares, snapshots,
                                         gigabytes, share_networks, force)
            IN Calls("QuotaSetManager.update",
                     [fields |-> fields, user_id |-> user_id],
                     QuotaSetUpdateRequests(fields, user_id), fail, "skipped",
                     resp, QuotaSetUpdateReturn(resp))

\* QuotaSetManager.defaults
QuotaSetDefaults ==
    /\ Idle
    /\ \E tenant_id \in TenantIds, fail \in 0..1,
       resp \in EnvelopeBodies("quota_set") :
        Calls("QuotaSetManager.defaults", [tenant_id |-> tenant_id],
              QuotaSetDefaultsRequests(tenant_id), fail, "skipped",
              resp, BaseUnwrap(resp, "quota_set"))

\* QuotaSetManager.delete
QuotaSetDelete ==
    /\ Idle
    /\ \E tenant_id \in TenantIds, user_id \in UserIds, fail \in 0..1 :
        Calls("QuotaSetManager.delete",
              [tenant_id |-> tenant_id, user_id |-> user_id],
              QuotaSetDeleteRequests(tenant_id, user_id), fail, "skipped",
              None, Dropped(BaseNothing(None)))

\* QuotaClassSetManager.get
QuotaClassSetGet ==
    /\ Idle
    /\ \E class_name \in ClassNames, fail \in 0..1,
       resp \in EnvelopeBodies("quota_class_set") :
        Calls("QuotaClassSetManager.get", [class_name |-> class_name],
              QuotaClassSetGetRequests(class_name), fail, "skipped",
              resp, BaseUnwrap(resp, "quota_class_set"))

\* QuotaClassSet.update and QuotaClassSetManager.update
QuotaClassSetUpdate ==
    /\ Idle
    /\ \E shares \in QuotaValues,
       gigabytes \in QuotaValues, snapshots \in QuotaValues,
       share_networks \in QuotaValues, fail \in 0..1,
       resp \in EnvelopeBodies("quota_class_set") :
        \/ \E quota_class_set \in
                   {QuotaClassSetResource(c) : c \in ClassNames} :
            LET fields == QuotaClassSetFields(quota_class_set.class_name,
                                              shares, gigabytes, snapshots,
                                              share_networks)
            IN Calls("QuotaClassSet.update",
                     [quota_class_set |-> quota_class_set, fields |-> fields],
                     QuotaClassSetUpdateRequests(fields), fail, "skipped",
                     resp, Dropped(QuotaClassSetUpdateReturn(resp)))
        \/ \E class_name \in ClassNames :
            LET fields == QuotaClassSetFields(class_name, shares, gigabytes,
                                              snapshots, share_networks)
            IN Calls("QuotaClassSetManager.update", [fields |-> fields],
                     QuotaClassSetUpdateRequests(fields), fail, "skipped",
                     resp, QuotaClassSetUpdateReturn(resp))

\* the call has returned (or raised) and the caller goes on
Return ==
    /\ ~Idle
    /\ op' = "idle"
    /\ args' = [none |-> None]
    /\ requests' = <<>>
    /\ failed' = 0
    /\ raised' = NoError
    /\ validated' = "skipped"
    /\ response' = None
    /\ result' = None
    /\ UNCHANGED <<callers, wire>>

Next ==
    \/ Return
    \/ ShareAllow
    \/ ManagerAllow
    \/ Deny
    \/ AccessList
    \/ ResetState
    \/ ForceDelete
    \/ Create
    \/ Get
    \/ Update
    \/ Delete
    \/ GetMetadata
    \/ SetMetadata
    \/ UpdateAllMetadata
    \/ DeleteMetadata
    \/ List
    \/ QuotaSetGet
    \/ QuotaSetUpdate
    \/ QuotaSetDefaults
    \/ QuotaSetDelete
    \/ QuotaClassSetGet
    \/ QuotaClassSetUpdate

Spec == Init /\ [][Next]_vars

-----------------------------------------------------------------------------
(* Several callers on the same managers.  A call's name and arguments live *)
(* in the caller's own frame, as do the url and body built from them; the  *)
(* managers hold nothing that a call writes.  The callers take turns       *)
(* request by request.                                                     *)

\* the calls a caller may make
PairCalls ==
    {[name |-> "ShareManager.delete_metadata",
      args |-> [share |-> share, keys |-> keys]] :
         share \in {ShareResource(IntV(1234)), Str("4321")},
         keys \in {<<Str("key1"), Str("key2")>>, <<Str("key2")>>}}
    \cup {[name |-> "ShareManager.deny",
           args |-> [share |-> ShareResource(IntV(1234)), id |-> Str("acc-1")]]}
    \cup {[name |-> "ShareManager.update",
           args |-> [share |-> ShareResource(IntV(1234)), kwargs |-> kwargs]] :
              kwargs \in {k \in UpdateKwargs : DOMAIN k \subseteq {"display_name"}
                                                  /\ None \notin {k[f] : f \in DOMAIN k}}}
    \cup {[name |-> "QuotaSetManager.update",
           args |-> [fields |-> QuotaSetFields(Str("tenant-a"), IntV(5), None,
                                               None, None, None),
                     user_id |-> user_id]] :
              user_id \in {None, Str("user-1")}}

\* (mutant: the url and body are kept on the manager, where the call that
\* entered last overwrites them)
NextRequestShared(c) ==
    LET busy == {d \in (1..MaxCallers) \ {c} :
                    /\ callers[d].pc = "running"
                    /\ RequestsOf(callers[d].name, callers[d].args) # <<>>}
    IN IF busy = {}
       THEN RequestsOf(callers[c].name, callers[c].args)[callers[c].sent + 1]
       ELSE LET d == CHOOSE d \in busy : TRUE
            IN RequestsOf(callers[d].name, callers[d].args)[1]
\* the request a call hands over next: built in its own frame, from its own
\* arguments
NextRequest(c) ==
    RequestsOf(callers[c].name, callers[c].args)[callers[c].sent + 1]

\* a caller calls a manager operation
Enter(c) ==
    /\ callers[c].pc = "idle"
    /\ \E call \in PairCalls :
           callers' = [callers EXCEPT ![c] =
                          [pc |-> "running", name |-> call.name,
                           args |-> call.args, sent |-> 0, failed |-> 0]]
    /\ UNCHANGED wire
    /\ UNCHANGED <<op, args, requests, failed, raised, validated, response,
                   result>>

\* the call hands its next request to the transport, which answers it or
\* raises; raising ends the call
Send(c) ==
    /\ callers[c].pc = "running"
    /\ callers[c].sent < Len(RequestsOf(callers[c].name, callers[c].args))
    /\ wire' = Append(wire, [caller |-> c, request |-> NextRequest(c)])
    /\ \/ callers' = [callers EXCEPT ![c].sent = @ + 1]
       \/ callers' = [callers EXCEPT ![c].sent = @ + 1,
                                     ![c].failed = callers[c].sent + 1,
                                     ![c].pc = "done"]
    /\ UNCHANGED <<op, args, requests, failed, raised, validated, response,
                   result>>

\* the call has made all its requests and ends
Finish(c) ==
    /\ callers[c].pc = "running"
    /\ callers[c].sent = Len(RequestsOf(callers[c].name, callers[c].args))
    /\ callers' = [callers EXCEPT ![c].pc = "done"]
    /\ UNCHANGED wire
    /\ UNCHANGED <<op, args, requests, failed, raised, validated, response,
                   result>>

\* the caller goes on; its requests are no longer looked at
Leave(c) ==
    /\ callers[c].pc = "done"
    /\ callers' = [callers EXCEPT ![c] = IdleCaller]
    /\ wire' = SelectSeq(wire, LAMBDA e : e.caller # c)
    /\ UNCHANGED <<op, args, requests, failed, raised, validated, response,
                   result>>

NextPair ==
    \/ \E c \in 1..MaxCallers : Enter(c)
    \/ \E c \in 1..MaxCallers : Send(c)
    \/ \E c \in 1..MaxCallers : Finish(c)
    \/ \E c \in 1..MaxCallers : Leave(c)

SpecPair == Init /\ [][NextPair]_vars

-----------------------------------------------------------------------------
(* What the claims speak of.                                               *)

\* the identity of a share argument: a resource's id, or the raw id itself
IdentityOf(share) == IF share.t = "Share" THEN share.id ELSE share

AllowOps == {"Share.allow", "ShareManager.allow"}
DenyOps == {"Share.deny", "ShareManager.deny"}
AccessListOps == {"Share.access_list", "ShareManager.access_list"}
ResetStateOps == {"Share.reset_state", "ShareManager.reset_state"}
ForceDeleteOps == {"Share.force_delete", "ShareManager.force_delete"}
ActionOps ==
    AllowOps \cup DenyOps \cup AccessListOps \cup ResetStateOps
        \cup ForceDeleteOps
UpdateOps == {"Share.update", "ShareManager.update"}

\* the discriminator key documented for each action
ExpectedActionKey(o) ==
    CASE o \in AllowOps -> "os-allow_access"
      [] o \in DenyOps -> "os-deny_access"
      [] o \in AccessListOps -> "os-access_list"
      [] o \in ResetStateOps -> "os-reset_status"
      [] o \in ForceDeleteOps -> "os-force_delete"

\* the fields of a mapping that carry a value other than None
Supplied(fields) == {k \in DOMAIN fields : fields[k] # None}
NoNullValue(sent) == \A k \in DOMAIN sent : sent[k] # None

\* the object under the envelope key of a request body
Envelope(r, key) == r.body.v[key].v

(* C1: for every update call (share, quota-set, quota-class-set) the object *)
(* under the envelope key holds a key for exactly the fields supplied with  *)
(* a value (the identity key included) and no key whose value is null.      *)
C1_PartialUpdateOmission ==
    \A i \in 1..Len(requests) :
        /\ op \in UpdateOps =>
               /\ DOMAIN Envelope(requests[i], "share") = Supplied(args.kwargs)
               /\ NoNullValue(Envelope(requests[i], "share"))
        /\ op = "QuotaSetManager.update" =>
               /\ DOMAIN Envelope(requests[i], "quota_set")
                      = Supplied(args.fields)
               /\ "tenant_id" \in DOMAIN Envelope(requests[i], "quota_set")
               /\ NoNullValue(Envelope(requests[i], "quota_set"))
        /\ op = "QuotaClassSetManager.update" =>
               /\ DOMAIN Envelope(requests[i], "quota_class_set")
                      = Supplied(args.fields)
               /\ "class_name"
                      \in DOMAIN Envelope(requests[i], "quota_class_set")
               /\ NoNullValue(Envelope(requests[i], "quota_class_set"))

(* C2: every request of a share action is a POST to /shares/{id}/action     *)
(* whose body has exactly one top-level key, the name of the action.        *)
C2_ActionDiscriminator ==
    op \in ActionOps =>
        \A i \in 1..Len(requests) :
            /\ requests[i].method = "POST"
            /\ requests[i].url
                   = "/shares/" \o PyStr(IdentityOf(args.share)) \o "/action"
            /\ requests[i].body.t = "dict"
            /\ DOMAIN requests[i].body.v = {ExpectedActionKey(op)}
            /\ Cardinality(DOMAIN requests[i].body.v) = 1
C2_Witness ==
    /\ op = "ShareManager.reset_state"
    /\ args.share = Str("4321")
    /\ Len(requests) = 1
    /\ requests[1].url = "/shares/4321/action"

\* the value a request body holds under its action key
ActionParams(r) == r.body.v[ExpectedActionKey(op)]

(* C3: the value under the action key has the documented shape: allow sends *)
(* exactly {access_type, access_to} with the caller's values, deny exactly  *)
(* {access_id}, reset_state exactly {status}, access_list and force_delete  *)
(* send null.                                                               *)
C3_ActionParams ==
    op \in ActionOps =>
        \A i \in 1..Len(requests) :
            /\ ExpectedActionKey(op) \in DOMAIN requests[i].body.v
            /\ op \in AllowOps =>
                   /\ ActionParams(requests[i]).t = "dict"
                   /\ DOMAIN ActionParams(requests[i]).v
                          = {"access_type", "access_to"}
                   /\ ActionParams(requests[i]).v["access_type"]
                          = Str(args.access_type)
                   /\ ActionParams(requests[i]).v["access_to"]
                          = Chars(args.access)
            /\ op \in DenyOps =>
                   /\ ActionParams(requests[i]).t = "dict"
                   /\ DOMAIN ActionParams(requests[i]).v = {"access_id"}
                   /\ ActionParams(requests[i]).v["access_id"] = args.id
            /\ op \in ResetStateOps =>
                   /\ ActionParams(requests[i]).t = "dict"
                   /\ DOMAIN ActionParams(requests[i]).v = {"status"}
                   /\ ActionParams(requests[i]).v["status"] = args.state
            /\ op \in AccessListOps \cup ForceDeleteOps =>
                   ActionParams(requests[i]) = None
C3_Witness ==
    /\ op = "ShareManager.deny"
    /\ args.id = IntV(7)
    /\ Len(requests) = 1
    /\ requests[1].body = Dict("os-deny_access" :> Dict("access_id" :> IntV(7)))

\* whether a request carries the os-allow_access action
IsAllowRequest(r) == r.body.t = "dict" /\ "os-allow_access" \in DOMAIN r.body.v

(* C4: an os-allow_access request is handed to the transport only after the *)
(* (access_type, access) pair has passed local validation, on every path    *)
(* (Share.allow and ShareManager.allow); a validation failure results in    *)
(* zero requests.                                                           *)
C4_AllowValidatedFirst ==
    /\ \A i \in 1..Len(requests) :
           IsAllowRequest(requests[i]) => validated = "passed"
    /\ validated = "failed" => requests = <<>>

\* a Share.allow call of the given access type
AllowCallOf(access_type) ==
    op = "Share.allow" /\ args.access_type = access_type

\* the number of occurrences of a character
CountOf(cs, c) == Cardinality({i \in 1..Len(cs) : cs[i] = c})
\* the characters before the first occurrence of c (all of them if none)
Before(cs, c) ==
    SubSeq(cs, 1, Len(cs) - Cardinality({i \in 1..Len(cs) :
                                            \E j \in 1..i : cs[j] = c}))
\* the characters after the first occurrence of c
After(cs, c) == SubSeq(cs, Len(Before(cs, c)) + 2, Len(cs))
\* a piece of text that reads as an integer between lo and hi
IntegerIn(cs, lo, hi) == PyInt(cs).ok /\ PyInt(cs).val \in lo..hi

RECURSIVE AllOctets(_, _)
\* n pieces separated by dots, each an integer in [0,255], and nothing else
AllOctets(cs, n) ==
    IF n = 1 THEN CountOf(cs, ".") = 0 /\ IntegerIn(cs, 0, 255)
    ELSE /\ CountOf(cs, ".") = n - 1
         /\ IntegerIn(Before(cs, "."), 0, 255)
         /\ AllOctets(After(cs, "."), n - 1)

\* A.B.C.D or A.B.C.D/N: four octets in [0,255], N in [0,32]
HasIpForm(cs) ==
    \/ CountOf(cs, "/") = 0 /\ AllOctets(cs, 4)
    \/ /\ CountOf(cs, "/") = 1
       /\ AllOctets(Before(cs, "/"), 4)
       /\ IntegerIn(After(cs, "/"), 0, 32)

(* C5: for access type ip a value is accepted if and only if it has the     *)
(* form A.B.C.D or A.B.C.D/N with exactly four octets, each an integer in   *)
(* [0,255], and N an integer in [0,32]; 10.0.0.2 and 10.0.0.0/24 are        *)
(* accepted, 10.0.0, 10.0.0.0/33 and 999.0.0.1 are rejected with            *)
(* CommandError.                                                            *)
C5_IpRule ==
    AllowCallOf("ip") =>
        /\ validated = "passed" <=> HasIpForm(args.access)
        /\ validated # "passed" =>
               validated = "failed" /\ raised.exc = "CommandError"
        /\ args.access \in {<<"1", "0", ".", "0", ".", "0", ".", "2">>,
                            <<"1", "0", ".", "0", ".", "0", ".", "0", "/",
                              "2", "4">>} => validated = "passed"
        /\ args.access \in {<<"1", "0", ".", "0", ".", "0">>,
                            <<"1", "0", ".", "0", ".", "0", ".", "0", "/",
                              "3", "3">>,
                            <<"9", "9", "9", ".", "0", ".", "0", ".", "1">>}
               => raised.exc = "CommandError"
C5_Witness ==
    /\ AllowCallOf("ip")
    /\ args.access = <<"2", "5", "5", ".", "0", ".", "0", ".", "2", "5", "5",
                       "/", "3", "2">>
    /\ validated = "passed"
    /\ Len(requests) = 1
C5_WitnessRejected ==
    /\ AllowCallOf("ip")
    /\ args.access = <<"1", "0", ".", "0", ".", "0", ".", "0", "/", "3", "3">>
    /\ raised.exc = "CommandError"

(* C6: for access type sid a value is accepted if and only if it is 4 to 32 *)
(* characters long and every character is a letter, a digit or one of       *)
(* _ . - ` ' { } [ ] ; (so a 3-character value, a 33-character value and a  *)
(* value containing @ are rejected with CommandError).                      *)
C6_UsernameRule ==
    AllowCallOf("sid") =>
        /\ validated = "passed" <=>
               /\ Len(args.access) \in 4..32
               /\ \A i \in 1..Len(args.access) :
                      args.access[i] \in Letters \cup Digits
                          \cup {"_", ".", "-", Backtick, "'", "{", "}", "[",
                                "]", ";"}
        /\ validated # "passed" => raised.exc = "CommandError"

(* C7: Share.allow with an access type other than ip or sid fails at once   *)
(* with CommandError, whatever the access value, and issues no request.     *)
C7_OtherTypeRejected ==
    (op = "Share.allow" /\ args.access_type \notin {"ip", "sid"}) =>
        /\ raised.exc = "CommandError"
        /\ requests = <<>>
C7_Witness ==
    /\ AllowCallOf("user")
    /\ args.access = <<"1", "0", ".", "0", ".", "0", ".", "2">>
    /\ raised.exc = "CommandError"
    /\ requests = <<>>

\* an ip value that Share.allow turned down
IpRejected == AllowCallOf("ip") /\ validated = "failed"

(* C8 as stated: every violation of the ip rule fails with a CommandError   *)
(* whose message describes the two supported forms.                         *)
C8_EveryViolationNamesForms ==
    IpRejected => raised = CommandError(IpExcStr)

\* exactly one slash, followed by something that is no integer in [0,32]
BadPrefix(cs) == CountOf(cs, "/") = 1 /\ ~IntegerIn(After(cs, "/"), 0, 32)

(* C8 as amended: every violation of the ip rule fails with a CommandError; *)
(* its message describes the two supported forms, except when the value has *)
(* exactly one slash and the prefix is non-numeric or outside [0,32], where *)
(* the message is the one about the prefix range.                           *)
C8_ViolationMessages ==
    IpRejected =>
        /\ raised.exc = "CommandError"
        /\ BadPrefix(args.access) => raised.msg = IpPrefixMsg
        /\ ~BadPrefix(args.access) => raised.msg = IpExcStr
C8_Witness ==
    /\ IpRejected
    /\ args.access = <<"2", "5", "6", ".", "0", ".", "0", ".", "0", "/", "3", "3">>
    /\ raised.msg = IpPrefixMsg
C8_WitnessForms ==
    /\ IpRejected
    /\ args.access = <<"1", ".", "2", ".", "3", ".", "4", "/", "x", "/", "y">>
    /\ raised.msg = IpExcStr

\* the DELETE the i-th key of a delete_metadata call stands for
ExpectedDelete(i) ==
    [method |-> "DELETE",
     url |-> "/shares/" \o PyStr(IdentityOf(args.share)) \o "/metadata/"
                 \o PyStr(args.keys[i]),
     body |-> None]

(* C9: delete_metadata(share, [k1..kn]) issues its DELETE requests in the   *)
(* order of the key list, the i-th to /shares/{id}/metadata/{ki}, and       *)
(* exactly n of them when none fails.                                       *)
C9_DeleteMetadataPerKey ==
    op = "ShareManager.delete_metadata" =>
        /\ Len(requests) <= Len(args.keys)
        /\ \A i \in 1..Len(requests) : requests[i] = ExpectedDelete(i)
        /\ raised = NoError => Len(requests) = Len(args.keys)
C9_Witness ==
    /\ op = "ShareManager.delete_metadata"
    /\ args.keys = <<Str("key1"), Str("key2")>>
    /\ raised = NoError
    /\ Len(requests) = 2
    /\ requests[1].url = "/shares/1234/metadata/key1"
    /\ requests[2].url = "/shares/1234/metadata/key2"

\* key=value of one filter entry, both escaped
EntryText(p) == QuotePlus(PyChars(p[1])) \o <<"=">> \o QuotePlus(PyChars(p[2]))
\* the query string that carries the truthy entries of a sequence, in order
ExpectedQuery(entries) ==
    LET kept == SelectSeq(entries, LAMBDA p : Truthy(p[2]))
    IN IF kept = <<>> THEN ""
       ELSE "?" \o Join(JoinWith([i \in 1..Len(kept) |-> EntryText(kept[i])],
                                 <<"&">>))
ListBase == IF args.detailed THEN "/shares/detail" ELSE "/shares"
\* the entries of the call's search_opts as inserted (none for None)
InsertedEntries ==
    IF args.search_opts.t = "mapping" THEN args.search_opts.v ELSE <<>>
\* the same entries in the order in which the mapping iterated
IteratedEntries == [i \in 1..Len(args.order) |-> InsertedEntries[args.order[i]]]

(* C10 as stated: list builds the query string from exactly the truthy      *)
(* entries, in the insertion order of the filter mapping.                   *)
C10_QueryInInsertionOrder ==
    op = "ShareManager.list" =>
        \A i \in 1..Len(requests) :
            requests[i].url = ListBase \o ExpectedQuery(InsertedEntries)

(* C10 as amended: list builds the query string from exactly the truthy     *)
(* entries, each once, in the order in which the filter mapping iterates;   *)
(* a falsy entry never appears, and when no entry is truthy or no filters   *)
(* are given the path carries no question mark.                             *)
C10_QueryInIterationOrder ==
    op = "ShareManager.list" =>
        \A i \in 1..Len(requests) :
            /\ requests[i].url = ListBase \o ExpectedQuery(IteratedEntries)
            /\ (\A k \in 1..Len(InsertedEntries) :
                    ~Truthy(InsertedEntries[k][2]))
                   => requests[i].url = ListBase
            /\ args.search_opts
                   = Mapping(<<<<Chars(<<"s", "t", "a", "t", "u", "s">>),
                                 Chars(<<"a", "v", "a", "i", "l", "a", "b",
                                         "l", "e">>)>>,
                               <<Chars(<<"n", "a", "m", "e">>), None>>>>)
                   => requests[i].url = ListBase \o "?status=available"
C10_Witness ==
    /\ op = "ShareManager.list"
    /\ Len(requests) = 1
    /\ args.search_opts
           = Mapping(<<<<Chars(<<"s", "t", "a", "t", "u", "s">>),
                         Chars(<<"a", "v", "a", "i", "l", "a", "b", "l",
                                 "e">>)>>,
                       <<Chars(<<"n", "a", "m", "e">>),
                         Chars(<<"m", "y", " ", "s", "&", "1">>)>>>>)
    /\ args.order = <<2, 1>>
    /\ requests[1].url = "/shares/detail?name=my+s%261&status=available"
C10_WitnessOmitted ==
    /\ op = "ShareManager.list"
    /\ Len(requests) = 1
    /\ args.search_opts
           = Mapping(<<<<Chars(<<"s", "t", "a", "t", "u", "s">>),
                         Chars(<<"a", "v", "a", "i", "l", "a", "b", "l",
                                 "e">>)>>,
                       <<Chars(<<"n", "a", "m", "e">>), None>>>>)
    /\ requests[1].url = "/shares/detail?status=available"

\* the three QuotaSetManager operations that take a tenant and a user_id
QuotaSetUrlOps ==
    {"QuotaSetManager.get", "QuotaSetManager.update", "QuotaSetManager.delete"}
\* the tenant a quota-set call is made for
TenantOf ==
    IF op = "QuotaSetManager.update" THEN args.fields["tenant_id"]
    ELSE IF "tenant_id" \in DOMAIN args.tenant_id
         THEN args.tenant_id.tenant_id
         ELSE args.tenant_id
\* a user_id is present when one is given and it is not the empty string
UserPresent(user_id) == user_id # None /\ user_id # Str("")
\* the one URL of a tenant and a user_id, whatever the operation
ExpectedQuotaSetUrl(tenant, user_id) ==
    IF UserPresent(user_id)
    THEN "/os-quota-sets/" \o tenant.v \o "?user_id=" \o user_id.v
    ELSE "/os-quota-sets/" \o tenant.v
\* user_id is no key of the body, at the top or inside the envelope
NoUserIdIn(body) ==
    \/ body = None
    \/ /\ "user_id" \notin DOMAIN body.v
       /\ \A k \in DOMAIN body.v :
              body.v[k].t = "dict" => "user_id" \notin DOMAIN body.v[k].v

\* C11: QuotaSetManager.get, update and delete target, for the same tenant
\* and user_id, the same URL: /os-quota-sets/{tenant}?user_id={user_id} when
\* a user_id is present and /os-quota-sets/{tenant} when not; the user_id is
\* never part of the path or the body.
C11_QuotaSetUrl ==
    op \in QuotaSetUrlOps =>
        \A i \in DOMAIN requests :
            /\ requests[i].url = ExpectedQuotaSetUrl(TenantOf, args.user_id)
            /\ NoUserIdIn(requests[i].body)
\* a delete for a user has been issued
C11_Witness ==
    /\ op = "QuotaSetManager.delete"
    /\ args.user_id = Str("user-1")
    /\ Len(requests) = 1
\* an update for a user has been issued with a body
C11_WitnessUpdate ==
    /\ op = "QuotaSetManager.update"
    /\ args.user_id = Str("user-1")
    /\ Len(requests) = 1
    /\ DOMAIN requests[1].body.v["quota_set"].v # {"tenant_id"}

\* the envelope key of the answer to a quota update
UpdateEnvelopeKey ==
    IF op = "QuotaSetManager.update" THEN "quota_set" ELSE "quota_class_set"
\* the PUT of the call was answered with a body that holds the envelope key
PutAnswered ==
    /\ Len(requests) = 1
    /\ requests[1].method = "PUT"
    /\ raised = NoError
    /\ response.t = "dict"
    /\ UpdateEnvelopeKey \in DOMAIN response.v

\* C12: QuotaSetManager.update and QuotaClassSetManager.update both return
\* the updated set: after a successful PUT the result is the resource built
\* from what lies under quota_set / quota_class_set in the answer, not
\* nothing.
C12_UpdateReturnsSet ==
    (op \in {"QuotaSetManager.update", "QuotaClassSetManager.update"}
         /\ PutAnswered)
        => result = Resource(response.v[UpdateEnvelopeKey])

\* the operations of the three managers
ManagerOps ==
    {"ShareManager.create", "ShareManager.get", "ShareManager.update",
     "ShareManager.list", "ShareManager.delete", "ShareManager.force_delete",
     "ShareManager.allow", "ShareManager.deny", "ShareManager.access_list",
     "ShareManager.reset_state", "ShareManager.get_metadata",
     "ShareManager.set_metadata", "ShareManager.update_all_metadata",
     "ShareManager.delete_metadata",
     "QuotaSetManager.get", "QuotaSetManager.update",
     "QuotaSetManager.defaults", "QuotaSetManager.delete",
     "QuotaClassSetManager.get", "QuotaClassSetManager.update"}
\* delete_metadata: one request per key, all of them unless one fails
OnePerKey ==
    /\ Len(requests) <= Len(args.keys)
    /\ raised = NoError => Len(requests) = Len(args.keys)

\* C13: every manager operation issues exactly one HTTP request per call,
\* for any arguments; only delete_metadata differs, with one request per
\* key.
C13_OneRequestPerCall ==
    op \in ManagerOps =>
        IF op = "ShareManager.delete_metadata" THEN OnePerKey
        ELSE Len(requests) = 1

\* C13 (amended): every manager operation issues exactly one HTTP request
\* per call, except that ShareManager.update issues none when it is given no
\* fields or a raw id instead of a Share resource, and delete_metadata
\* issues one request per key.
C13_OneRequestUnlessUpdateSendsNone ==
    op \in ManagerOps =>
        CASE op = "ShareManager.delete_metadata" -> OnePerKey
          [] op = "ShareManager.update" ->
                 Len(requests) =
                     IF DOMAIN args.kwargs = {} \/ args.share.t # "Share"
                     THEN 0 ELSE 1
          [] OTHER -> Len(requests) = 1
\* an update without fields has returned without a request
C13_Witness ==
    /\ op = "ShareManager.update"
    /\ DOMAIN args.kwargs = {}
    /\ requests = <<>>
    /\ raised = NoError
\* a quota operation has issued its one request
C13_WitnessOne ==
    /\ op = "QuotaSetManager.defaults"
    /\ Len(requests) = 1

\* the keys of the share mapping in a create body
CreateKeys ==
    {"size", "snapshot_id", "name", "description", "metadata", "share_proto",
     "share_network_id", "volume_type"}
\* the value the create body must hold under a key, given the arguments
ExpectedCreateValue(k) ==
    CASE k = "metadata" ->
             IF args.metadata = None THEN Dict(<<>>) ELSE args.metadata
      [] k = "share_network_id" ->
             IF args.share_network = None THEN None
             ELSE IF args.share_network.t = "ShareNetwork"
                  THEN args.share_network.id
                  ELSE args.share_network
      [] OTHER -> args[k]

\* C14: ShareManager.create POSTs to /shares a body {share: {...}} with
\* exactly the eight keys size, snapshot_id, name, description, metadata,
\* share_proto, share_network_id and volume_type; an optional field that was
\* not supplied is null, except metadata, which is the empty mapping when
\* not supplied and the caller's mapping otherwise.
C14_CreateBody ==
    op = "ShareManager.create" =>
        \A i \in DOMAIN requests :
            /\ requests[i].method = "POST"
            /\ requests[i].url = "/shares"
            /\ DOMAIN requests[i].body.v = {"share"}
            /\ DOMAIN requests[i].body.v["share"].v = CreateKeys
            /\ \A k \in CreateKeys :
                   requests[i].body.v["share"].v[k] = ExpectedCreateValue(k)
\* a create with nothing optional supplied has been issued
C14_Witness ==
    /\ op = "ShareManager.create"
    /\ Len(requests) = 1
    /\ \A k \in {"snapshot_id", "name", "description", "metadata",
                 "share_network", "volume_type"} : args[k] = None
    /\ requests[1].body.v["share"].v["metadata"] = Dict(<<>>)
\* a create with metadata and a share network has been issued
C14_WitnessSupplied ==
    /\ op = "ShareManager.create"
    /\ Len(requests) = 1
    /\ args.metadata = Dict("k1" :> Str("v1"))
    /\ args.share_network = ShareNetworkResource(Str("net-1"))

\* the update and delete operations that a resource offers on itself
SelfOps ==
    {"Share.update", "Share.delete", "Share.force_delete",
     "Share.reset_state", "QuotaSet.update", "QuotaClassSet.update"}
\* the path such a call must target, built from the resource's identity
SelfPath ==
    CASE op \in {"Share.update", "Share.delete"} ->
             "/shares/" \o PyStr(args.share.id)
      [] op \in {"Share.force_delete", "Share.reset_state"} ->
             "/shares/" \o PyStr(args.share.id) \o "/action"
      [] op = "QuotaSet.update" ->
             "/os-quota-sets/" \o PyStr(args.quota_set.tenant_id)
      [] op = "QuotaClassSet.update" ->
             "/os-quota-class-sets/" \o PyStr(args.quota_class_set.class_name)
\* the URLs with that path: the path itself or, for a quota set updated for
\* a user, the path with the user_id query
SelfUrls ==
    IF op = "QuotaSet.update" /\ args.user_id.t = "str"
    THEN {SelfPath, SelfPath \o "?user_id=" \o args.user_id.v}
    ELSE {SelfPath}

\* C15: an update or delete invoked on a resource itself (Share.update,
\* delete, force_delete, reset_state, QuotaSet.update, QuotaClassSet.update)
\* targets the path built from the resource's own identity: Share.id,
\* tenant_id (which QuotaSet.id equals) or class_name (which
\* QuotaClassSet.id equals).
C15_SelfIdentityPath ==
    op \in SelfOps =>
        /\ \A i \in DOMAIN requests : requests[i].url \in SelfUrls
        /\ op = "QuotaSet.update" =>
               QuotaSetId(args.quota_set) = args.quota_set.tenant_id
        /\ op = "QuotaClassSet.update" =>
               QuotaClassSetId(args.quota_class_set)
                   = args.quota_class_set.class_name
\* a share has been deleted through itself
C15_Witness ==
    /\ op = "Share.delete"
    /\ args.share = ShareResource(IntV(1234))
    /\ Len(requests) = 1
    /\ requests[1].url = "/shares/1234"
\* a quota set has been updated through itself
C15_WitnessQuotaSet ==
    /\ op = "QuotaSet.update"
    /\ Len(requests) = 1
    /\ requests[1].url = "/os-quota-sets/tenant-b"
\* a quota-class set has been updated through itself
C15_WitnessQuotaClassSet ==
    /\ op = "QuotaClassSet.update"
    /\ Len(requests) = 1
    /\ requests[1].url = "/os-quota-class-sets/gold"

\* the operations that unwrap an envelope key, and the key of each
UnwrapKey ==
    [o \in AllowOps |-> "access"]
        @@ [o \in AccessListOps |-> "access_list"]
        @@ [o \in {"ShareManager.create", "ShareManager.get"} |-> "share"]
        @@ [o \in {"ShareManager.list"} |-> "shares"]
        @@ [o \in {"ShareManager.get_metadata", "ShareManager.set_metadata"}
               |-> "metadata"]
        @@ [o \in {"QuotaSetManager.get", "QuotaSetManager.update",
                   "QuotaSetManager.defaults"} |-> "quota_set"]
        @@ [o \in {"QuotaClassSetManager.get"} |-> "quota_class_set"]
\* the request of the call was answered (2xx), with a body that does not
\* hold the key: a null body or a mapping without it
AnsweredWithoutKey ==
    /\ op \in DOMAIN UnwrapKey
    /\ Len(requests) = 1
    /\ raised # TransportError
    /\ response.t = "dict" => UnwrapKey[op] \notin DOMAIN response.v

\* C16: when the 2xx answer to an operation that unwraps an envelope key
\* lacks the key (for allow the key access, for access_list the key
\* access_list; an empty or null body included), the operation fails with
\* BadResponse.
C16_MissingKeyIsBadResponse ==
    AnsweredWithoutKey => raised = BadResponse

\* C17: if the DELETE for the i-th key of delete_metadata fails, the
\* failure reaches the caller and the DELETE is not tried again; the
\* DELETEs for the keys before it have been issued and nothing undoes them;
\* no DELETE is issued for the keys after it.
C17_DeleteMetadataPartialFailure ==
    (op = "ShareManager.delete_metadata" /\ failed > 0) =>
        /\ raised = TransportError
        /\ result = None
        /\ Len(requests) = failed
        /\ \A j \in 1..failed : requests[j] = ExpectedDelete(j)
\* the DELETE of the second of three keys has failed
C17_Witness ==
    /\ op = "ShareManager.delete_metadata"
    /\ Len(args.keys) = 3
    /\ failed = 2
    /\ Len(requests) = 2

\* the quota updates and the envelope key of each
QuotaUpdateKey ==
    [o \in {"QuotaSetManager.update", "QuotaSet.update"} |-> "quota_set"]
        @@ [o \in {"QuotaClassSetManager.update", "QuotaClassSet.update"}
               |-> "quota_class_set"]
\* a value that is set, though to zero or to false
SetToZero(value) == value = IntV(0) \/ value = BoolV(FALSE)

\* C18: in a quota-set or quota-class-set update only None counts as unset:
\* a limit set to 0, or force set to false, is in the request body with that
\* value and is never dropped.
C18_ZeroIsNotUnset ==
    op \in DOMAIN QuotaUpdateKey =>
        \A i \in DOMAIN requests : \A k \in DOMAIN args.fields :
            SetToZero(args.fields[k]) =>
                /\ k \in DOMAIN Envelope(requests[i], QuotaUpdateKey[op])
                /\ Envelope(requests[i], QuotaUpdateKey[op])[k] = args.fields[k]
\* a quota-set update with a limit of 0 and force false has been issued
C18_Witness ==
    /\ op = "QuotaSetManager.update"
    /\ Len(requests) = 1
    /\ args.fields["shares"] = IntV(0)
    /\ args.fields["force"] = BoolV(FALSE)
    /\ args.fields["gigabytes"] = None
\* a quota-class-set update with a limit of 0 has been issued
C18_WitnessClass ==
    /\ op = "QuotaClassSetManager.update"
    /\ Len(requests) = 1
    /\ args.fields["snapshots"] = IntV(0)

\* the ShareManager operations that take a share argument
ShareArgOps ==
    {"ShareManager.update", "ShareManager.delete", "ShareManager.force_delete",
     "ShareManager.allow", "ShareManager.deny", "ShareManager.access_list",
     "ShareManager.reset_state", "ShareManager.get_metadata",
     "ShareManager.set_metadata", "ShareManager.update_all_metadata",
     "ShareManager.delete_metadata"}
\* the same share in the other form: the raw id of a resource, the resource
\* of a raw id
OtherForm(share) ==
    IF share.t = "Share" THEN share.id ELSE ShareResource(share)
\* what the call issues when the share is given in the other form and the
\* transport fails at the same request, if at any
IssuedForOtherForm ==
    Issued(RequestsOf(op, [args EXCEPT !.share = OtherForm(args.share)]),
           failed)

\* C19: every ShareManager operation that takes a share argument issues the
\* same requests (method, path, body) for a Share resource with identity X
\* and for the raw id X.
C19_ResourceOrRawId ==
    op \in ShareArgOps => requests = IssuedForOtherForm

\* the requests of caller c on the wire, in order
SentBy(c) ==
    LET mine == SelectSeq(wire, LAMBDA e : e.caller = c)
    IN [i \in 1..Len(mine) |-> mine[i].request]
\* the requests the call of caller c issues when it runs alone
Alone(c) == RequestsOf(callers[c].name, callers[c].args)

\* C20: the managers keep no state between calls: whatever other call runs
\* before, after or in between, each call issues exactly the requests it
\* would issue alone, which its own arguments determine.
C20_CallsAreIndependent ==
    \A c \in 1..MaxCallers :
        callers[c].pc # "idle" =>
            /\ Len(SentBy(c)) <= Len(Alone(c))
            /\ SentBy(c) = SubSeq(Alone(c), 1, Len(SentBy(c)))
            /\ callers[c].pc = "done" =>
                   SentBy(c) = Issued(Alone(c), callers[c].failed)
\* two different calls have run to their end with their requests interleaved
C20_Witness ==
    /\ callers[1].pc = "done" /\ callers[2].pc = "done"
    /\ callers[1].failed = 0 /\ callers[2].failed = 0
    /\ callers[1].name = "ShareManager.delete_metadata"
    /\ callers[2].name = "ShareManager.deny"
    /\ Len(wire) = 3
    /\ wire[1].caller = 1 /\ wire[2].caller = 2 /\ wire[3].caller = 1

====
